---- MODULE Spec2Model ----
(***************************************************************************)
(* A model of src/slot.rs: Slot<T>, the versioned storage cell of a slot   *)
(* map.  A slot holds at most one value of type T; the parity of its       *)
(* 32-bit version says whether it is occupied.                             *)
(*                                                                         *)
(* T is modelled as a type that owns a resource: the bits kept in the      *)
(* slot's storage name an object, the object's payload lives in `heap`,    *)
(* T::clone allocates a new object and T's destructor frees one.  That is  *)
(* what makes moving, cloning and dropping a value observable.             *)
(***************************************************************************)
EXTENDS Integers, Sequences, FiniteSets, TLC

(***************************************************************************)
(* Bounds of the model.                                                    *)
(***************************************************************************)
\* Number of slots that are ever constructed.
MaxSlots == 2
\* Number of T objects that are ever allocated.
MaxObjs == 2
\* Number of calls that are made in all, those that only read not counted.
MaxSteps == 5

SlotIds == 1..MaxSlots
ObjIds == 1..MaxObjs
\* A bit pattern of storage: the name of an object, or 0, which names none.
Bits == 0..MaxObjs
\* Payloads of T.
Data == {"a", "b"}
\* Values the owner writes into the public field next_free.
NextFrees == {0, 42}

(***************************************************************************)
(* u32.  TLC's integers are narrower than 2^32, so a u32 is kept as its    *)
(* two 16-bit halves; the operators below are total on the full width.     *)
(***************************************************************************)
Half == 65536

U32(h, l) == [hi |-> h, lo |-> l]

Zero == U32(0, 0)
One == U32(0, 1)
\* 2^32 - 1
U32Max == U32(Half - 1, Half - 1)

\* a small natural number as a u32
FromNat(n) == U32(n \div Half, n % Half)

\* Bug: the counter is 16 bits wide, the carry out of them is lost.
wrapping_add_u16(a, b) == U32(a.hi, (a.lo + b.lo) % Half)

\* u32::wrapping_add
wrapping_add(a, b) ==
    LET lo == a.lo + b.lo
        hi == a.hi + b.hi + (lo \div Half)
    IN  U32(hi % Half, lo % Half)

\* a % 2 (Half is even, so the low half decides)
Rem2(a) == a.lo % 2

RECURSIVE BitOrNat(_, _)
BitOrNat(a, b) ==
    IF a = 0 THEN b
    ELSE IF b = 0 THEN a
    ELSE (IF a % 2 = 1 \/ b % 2 = 1 THEN 1 ELSE 0)
         + 2 * BitOrNat(a \div 2, b \div 2)

\* a | b
BitOr(a, b) == U32(BitOrNat(a.hi, b.hi), BitOrNat(a.lo, b.lo))

\* a < b
U32Less(a, b) == a.hi < b.hi \/ (a.hi = b.hi /\ a.lo < b.lo)

(***************************************************************************)
(* Option<T>                                                               *)
(***************************************************************************)
None == << >>
Some(x) == << x >>

to_option(b, some) == IF b THEN Some(some) ELSE None

(***************************************************************************)
(* impl Slot.  A slot is the record of the struct's three fields.  The     *)
(* field value holds storage bits; `uninitialized` stands for storage the  *)
(* code left uninitialized, whose bits are whatever a read finds there.    *)
(***************************************************************************)
uninitialized == -1

new == [value |-> uninitialized, version |-> Zero, next_free |-> 0]

occupied(self) == Rem2(self.version) > 0

\* Bug: the next version, not the next occupied version.
occupied_version_next(self) == wrapping_add(self.version, One)

occupied_version(self) == BitOr(self.version, One)

has_version(self, version) == self.version = version

\* Bug: the occupancy test is left out.
value_unguarded(self) == Some(self.value)

value(self) == to_option(occupied(self), self.value)

value_mut(self) == to_option(occupied(self), self.value)

get_versioned(self, version) ==
    to_option(has_version(self, version), self.value)

get_versioned_mut(self, version) ==
    to_option(has_version(self, version), self.value)

get_unchecked(self) == self.value

get_unchecked_mut(self) == self.value

\* Bug: the version is left as it was.
store_value_stale(self, v) == [self EXCEPT !.value = v]

\* Bug: the slot is built anew around the value, and next_free is lost.
store_value_rebuilt(self, v) ==
    [value |-> v, version |-> BitOr(self.version, One), next_free |-> 0]

store_value(self, v) ==
    [self EXCEPT !.version = BitOr(@, One), !.value = v]

\* Bug: the version is left as it was.
remove_value_keep(self) ==
    [slot |-> [self EXCEPT !.value = uninitialized], ret |-> self.value]

\* Bug: the occupancy bit is cleared, which takes the version back.
remove_value_flip(self) ==
    [slot |-> [self EXCEPT
                 !.version = U32(@.hi, @.lo - Rem2(@)),
                 !.value = uninitialized],
     ret  |-> self.value]

\* Bug: the version is advanced by a whole generation.
remove_value_by2(self) ==
    [slot |-> [self EXCEPT !.version = wrapping_add(@, FromNat(2)),
                           !.value = uninitialized],
     ret  |-> self.value]

\* Bug: the addition saturates, the version stays at 2^32 - 1.
remove_value_saturating(self) ==
    [slot |-> [self EXCEPT
                 !.version = IF @ = U32Max THEN @ ELSE wrapping_add(@, One),
                 !.value = uninitialized],
     ret  |-> self.value]

\* Bug: the emptied slot is taken off the free list.
remove_value_unlinked(self) ==
    [slot |-> [self EXCEPT !.version = wrapping_add(@, One),
                           !.value = uninitialized,
                           !.next_free = 0],
     ret  |-> self.value]

\* Bug: the arguments of the replace are swapped, the old value is lost.
remove_value_lost(self) ==
    [slot |-> [self EXCEPT !.version = wrapping_add(@, One)],
     ret  |-> uninitialized]

\* the slot afterwards, and the value moved out
remove_value(self) ==
    [slot |-> [self EXCEPT !.version = wrapping_add(@, One),
                           !.value = uninitialized],
     ret  |-> self.value]

\* Bug: the destructor is run whether or not the slot is occupied.
drop_always(self) == Some(self.value)

\* impl Drop: the storage that T's destructor is run on, if it is run
drop(self) == to_option(occupied(self), self.value)

\* Bug: the clone is built as a new slot is, next_free is not copied.
clone_fresh(self, cloned) ==
    [value     |-> IF occupied(self) THEN cloned ELSE uninitialized,
     version   |-> self.version,
     next_free |-> 0]

\* impl Clone: `cloned` is what T::clone returns when it is called
clone(self, cloned) ==
    [value     |-> IF occupied(self) THEN cloned ELSE uninitialized,
     version   |-> self.version,
     next_free |-> self.next_free]

\* Bug: all three fields are shown.
fmt_all(self, shown) ==
    [name   |-> "Slot",
     fields |-> << << "version", self.version >>, << "value", shown >>,
                   << "next_free", self.next_free >> >>]

\* impl fmt::Debug: the struct name and the fields given to the builder, in
\* order; `shown` is what T's Debug writes for the value
fmt(self, shown) ==
    [name   |-> "Slot",
     fields |-> << << "version", self.version >> >> \o
                (IF occupied(self)
                 THEN << << "value", shown >> >>
                 ELSE << << "next_free", self.next_free >> >>)]

(***************************************************************************)
(* Serialization.  SafeSlot is [value: Option<T>, version: u32].           *)
(***************************************************************************)
\* Bug: the slot starts at version 0 as a new one does.
from_safe_slot_zeroed(safe_slot) ==
    [value     |-> IF safe_slot.value # None THEN safe_slot.value[1]
                   ELSE uninitialized,
     version   |-> Zero,
     next_free |-> 0]

\* impl From<SafeSlot<T>> for Slot<T>
from_safe_slot(safe_slot) ==
    [value     |-> IF safe_slot.value # None THEN safe_slot.value[1]
                   ELSE uninitialized,
     version   |-> safe_slot.version,
     next_free |-> 0]

\* Bug: the storage is taken whether or not the slot is occupied.
from_slot_unguarded(slot) ==
    [value |-> Some(slot.value), version |-> slot.version]

\* impl From<&Slot<T>> for SafeSlot<&T>
from_slot(slot) == [value |-> value(slot), version |-> slot.version]

\* impl Serialize for Slot: the record written, where `payload` is what
\* T::serialize writes for the value that the SafeSlot refers to
serialize(self, payload) ==
    [value   |-> IF from_slot(self).value # None THEN Some(payload) ELSE None,
     version |-> from_slot(self).version]

\* Bug: only an odd version without a value is refused.
inconsistent_lenient(safe_slot) ==
    (Rem2(safe_slot.version) > 0) /\ (safe_slot.value = None)

\* the consistency test of Slot::deserialize: TRUE when the record is refused
inconsistent(safe_slot) ==
    (Rem2(safe_slot.version) > 0) # (safe_slot.value # None)

\* Versions that persisted records carry.
DeVersions == {One, U32(0, 4), U32Max}

\* The persisted records offered to Slot::deserialize: value null or a payload.
Records == [value : {None, Some("a")}, version : DeVersions]

(***************************************************************************)
(* State.                                                                  *)
(*   slots   the fields of each slot (meaningful while the slot is alive)  *)
(*   hist    what has been done with each slot: bookkeeping that the code  *)
(*           does not hold and that the properties refer to                *)
(*   heap    the payload of each T object, "unalloc" before it exists and  *)
(*           "freed" after its destructor ran                              *)
(*   drops   how often T's destructor was run on each object               *)
(*   caller  the objects owned by the code that uses the slots             *)
(*   steps   the number of calls made so far, to bound the exploration     *)
(*   wire    the record that the last serialize call wrote, with the slot  *)
(*           it was written from, or None                                  *)
(***************************************************************************)
VARIABLES slots, hist, heap, drops, caller, steps, wire

vars == << slots, hist, heap, drops, caller, steps, wire >>

(***************************************************************************)
(* hist[s]:                                                                *)
(*   state    "unborn", "alive" or "dropped"                               *)
(*   seen     the version at construction, then the version observed       *)
(*            right after each store_value / remove_value call             *)
(*   held     the object the slot was given and has not given back, or 0   *)
(*   ended    the versions of the occupancies that remove_value has ended  *)
(*   wrapped  whether the version has passed 2^32 - 1                      *)
(*   prior    set by store_value and remove_value: the call, the slot's    *)
(*            fields and `held` before it, the object passed or returned   *)
(*            and its payload; cleared by every other call                 *)
(*   restored set by a store_value that directly follows a remove_value    *)
(*            and puts back what it returned: the `prior` of that          *)
(*            remove_value; cleared by every other call                    *)
(*   origin   the slot that this one was cloned from, or 0                 *)
(***************************************************************************)
NoHist ==
    [state |-> "unborn", seen |-> << >>, held |-> 0,
     ended |-> {}, wrapped |-> FALSE, prior |-> None, restored |-> None,
     origin |-> 0]

\* the bookkeeping of a slot that was just constructed
Born(slot, held) ==
    [NoHist EXCEPT !.state = "alive", !.seen = << slot.version >>,
                   !.held = held]

\* the budget of calls
Step == steps < MaxSteps /\ steps' = steps + 1

\* every call ends what `prior` and `restored` say of the calls before it
Forget(h) ==
    [s \in SlotIds |-> [h[s] EXCEPT !.prior = None, !.restored = None]]

\* the record of a store_value or remove_value call on slot s
Prior(op, s, obj) ==
    Some([op |-> op, before |-> slots[s], held |-> hist[s].held,
          obj |-> obj,
          data |-> IF obj \in ObjIds THEN heap[obj] ELSE "none"])

\* the record of the clone() call that made a slot out of slot src: the
\* source's fields and what it held, the object that T::clone returned (0 if
\* T::clone was not called) and the payload of the source's value
Cloned(src, o) ==
    Some([op |-> "clone", before |-> slots[src], held |-> hist[src].held,
          obj |-> o,
          data |-> IF hist[src].held \in ObjIds THEN heap[hist[src].held]
                   ELSE "none"])

\* the record of a serialize call on slot s: what was written, the slot's
\* fields and what it held, and the payload of its value
Sent(s, rec) ==
    Some([rec |-> rec, before |-> slots[s], held |-> hist[s].held,
          data |-> IF hist[s].held \in ObjIds THEN heap[hist[s].held]
                   ELSE "none"])

\* the record of a deserialize call: the record read, the result ("Ok" or
\* "Err"), the object made for the value (0 if none), and the serialize
\* call that wrote the record, if it is the one last written
Parsed(rec, result, o) ==
    Some([op |-> "deserialize", rec |-> rec, result |-> result, obj |-> o,
          sent |-> IF wire # None /\ wire[1].rec = rec THEN wire ELSE None])

Alive(s) == hist[s].state = "alive"

\* the number of store_value / remove_value calls made on slot s
NOps(s) == IF hist[s].seen = << >> THEN 0 ELSE Len(hist[s].seen) - 1

\* the next slot to be constructed, the next object to be allocated
FreshSlot(s) ==
    /\ hist[s].state = "unborn"
    /\ \A t \in SlotIds : t < s => hist[t].state # "unborn"

FreshObj(o) ==
    /\ heap[o] = "unalloc"
    /\ \A p \in ObjIds : p < o => heap[p] # "unalloc"

\* bits that name an object whose payload can be read
LiveObj(b) == b \in ObjIds /\ heap[b] \in Data

\* what a read of storage can find: its bits, or any bits if uninitialized
Reads(storage) == IF storage = uninitialized THEN Bits ELSE {storage}

\* what a read of the T that storage holds can find as its payload
Payloads(storage) ==
    {d \in Data : \E b \in Reads(storage) : LiveObj(b) => d = heap[b]}

\* the versions a caller may hold as the version part of a handle
Handles(s) ==
    {slots[s].version, occupied_version(slots[s])} \cup hist[s].ended

\* the record that the last serialize call wrote, if there was one
Written == IF wire = None THEN {} ELSE {wire[1].rec}

Init ==
    /\ slots = [s \in SlotIds |-> new]
    /\ hist = [s \in SlotIds |-> NoHist]
    /\ heap = [o \in ObjIds |-> "unalloc"]
    /\ drops = [o \in ObjIds |-> 0]
    /\ caller = {}
    /\ steps = 0
    /\ wire = None

(***************************************************************************)
(* Construction and destruction.                                           *)
(***************************************************************************)
\* Slot::new()
New(s) ==
    /\ Step
    /\ FreshSlot(s)
    /\ slots' = [slots EXCEPT ![s] = new]
    /\ hist' = [Forget(hist) EXCEPT ![s] = Born(new, 0)]
    /\ UNCHANGED << heap, drops, caller, wire >>

\* slots[src].clone(), kept as slot dst.  T::clone runs only if the source
\* reports itself occupied; it allocates object o with the payload it reads.
Clone(src, dst) ==
    /\ Step
    /\ Alive(src)
    /\ FreshSlot(dst)
    /\ IF occupied(slots[src])
       THEN \E o \in ObjIds, b \in Reads(slots[src].value), d \in Data :
              /\ FreshObj(o)
              /\ LiveObj(b) => d = heap[b]
              /\ heap' = [heap EXCEPT ![o] = d]
              /\ slots' = [slots EXCEPT ![dst] = clone(slots[src], o)]
              /\ hist' = [Forget(hist) EXCEPT
                            ![dst] = [Born(slots[src], o) EXCEPT
                                        !.prior = Cloned(src, o),
                                        !.origin = src]]
       ELSE /\ heap' = heap
            /\ slots' = [slots EXCEPT ![dst] = clone(slots[src], 0)]
            /\ hist' = [Forget(hist) EXCEPT
                          ![dst] = [Born(slots[src], 0) EXCEPT
                                      !.prior = Cloned(src, 0),
                                      !.origin = src]]
    /\ UNCHANGED << drops, caller, wire >>

\* Slot::deserialize on the record rec.  A consistent record becomes slot s;
\* its value, if any, is a new object o.  An inconsistent record is refused
\* with Err, and the value parsed from it is gone when the call returns.
Deserialize(s, rec) ==
    /\ Step
    /\ FreshSlot(s)
    /\ IF inconsistent(rec)
       THEN /\ hist' = [Forget(hist) EXCEPT ![s].prior = Parsed(rec, "Err", 0)]
            /\ UNCHANGED << slots, heap >>
       ELSE IF rec.value # None
       THEN \E o \in ObjIds :
              LET safe_slot == [value |-> Some(o), version |-> rec.version]
              IN  /\ FreshObj(o)
                  /\ heap' = [heap EXCEPT ![o] = rec.value[1]]
                  /\ slots' = [slots EXCEPT ![s] = from_safe_slot(safe_slot)]
                  /\ hist' = [Forget(hist) EXCEPT ![s] =
                         [Born(from_safe_slot(safe_slot), o) EXCEPT
                            !.prior = Parsed(rec, "Ok", o)]]
       ELSE LET safe_slot == [value |-> None, version |-> rec.version]
            IN  /\ heap' = heap
                /\ slots' = [slots EXCEPT ![s] = from_safe_slot(safe_slot)]
                /\ hist' = [Forget(hist) EXCEPT ![s] =
                       [Born(from_safe_slot(safe_slot), 0) EXCEPT
                          !.prior = Parsed(rec, "Ok", 0)]]
    /\ UNCHANGED << drops, caller, wire >>

\* Slot::serialize on slot s.  T::serialize runs only if value() is Some, on
\* the object that the storage names; the record written is kept in `wire`.
Serialize(s) ==
    /\ Step
    /\ Alive(s)
    /\ IF from_slot(slots[s]).value = None
       THEN wire' = Sent(s, serialize(slots[s], "none"))
       ELSE \E d \in Payloads(from_slot(slots[s]).value[1]) :
              wire' = Sent(s, serialize(slots[s], d))
    /\ hist' = Forget(hist)
    /\ UNCHANGED << slots, heap, drops, caller >>

\* T's destructor run on the object that the bits b name, if they name one
Destroyed(b) ==
    /\ drops' = [o \in ObjIds |-> IF o = b THEN drops[o] + 1 ELSE drops[o]]
    /\ heap' = [o \in ObjIds |-> IF o = b THEN "freed" ELSE heap[o]]

\* impl Drop for Slot, when the owner lets go of slot s
Drop(s) ==
    /\ Step
    /\ Alive(s)
    /\ IF drop(slots[s]) = None
       THEN UNCHANGED << heap, drops >>
       ELSE \E b \in Reads(drop(slots[s])[1]) : Destroyed(b)
    /\ slots' = [slots EXCEPT ![s] = new]
    /\ hist' = [Forget(hist) EXCEPT ![s] = [NoHist EXCEPT !.state = "dropped"]]
    /\ UNCHANGED << caller, wire >>

(***************************************************************************)
(* The caller.                                                             *)
(***************************************************************************)
\* The caller makes a value of type T, to pass to store_value later.
MakeValue(d) ==
    /\ Step
    /\ \E o \in ObjIds :
         /\ FreshObj(o)
         /\ heap' = [heap EXCEPT ![o] = d]
         /\ caller' = caller \cup {o}
    /\ hist' = Forget(hist)
    /\ UNCHANGED << slots, drops, wire >>

\* The owner writes the public field next_free.
WriteNextFree(s, n) ==
    /\ Step
    /\ Alive(s)
    /\ n # slots[s].next_free
    /\ slots' = [slots EXCEPT ![s].next_free = n]
    /\ hist' = Forget(hist)
    /\ UNCHANGED << heap, drops, caller, wire >>

(***************************************************************************)
(* store_value and remove_value.  Both are unsafe fns; the caller keeps    *)
(* their contract: store only into a slot that holds nothing, remove only  *)
(* from a slot that holds a value.                                         *)
(***************************************************************************)
StoreValue(s, o) ==
    /\ Step
    /\ Alive(s)
    /\ hist[s].held = 0
    /\ o \in caller
    /\ slots' = [slots EXCEPT ![s] = store_value(slots[s], o)]
    /\ caller' = caller \ {o}
    /\ hist' = [Forget(hist) EXCEPT
                  ![s].held = o,
                  ![s].seen = Append(@, store_value(slots[s], o).version),
                  ![s].prior = Prior("store_value", s, o),
                  ![s].restored =
                      IF /\ hist[s].prior # None
                         /\ hist[s].prior[1].op = "remove_value"
                         /\ hist[s].prior[1].obj = o
                      THEN hist[s].prior ELSE None]
    /\ UNCHANGED << heap, drops, wire >>

RemoveValue(s) ==
    /\ Step
    /\ Alive(s)
    /\ hist[s].held # 0
    /\ LET r == remove_value(slots[s])
       IN  /\ slots' = [slots EXCEPT ![s] = r.slot]
           /\ caller' = caller \cup {r.ret}
           /\ hist' = [Forget(hist) EXCEPT
                         ![s].held = 0,
                         ![s].seen = Append(@, r.slot.version),
                         ![s].ended = @ \cup {slots[s].version},
                         ![s].wrapped = @ \/ slots[s].version = U32Max,
                         ![s].prior = Prior("remove_value", s, r.ret)]
    /\ UNCHANGED << heap, drops, wire >>

(***************************************************************************)
(* The accessors.  Those that read change nothing.  Those that hand out    *)
(* &mut T are followed by the caller's write of a new payload d through    *)
(* the reference: it lands on the object that the referenced storage       *)
(* names, if what is found there names a live object.                      *)
(***************************************************************************)
Write(ref, d) ==
    IF ref = None
    THEN heap' = heap
    ELSE \E b \in Reads(ref[1]) :
           heap' = IF LiveObj(b) THEN [heap EXCEPT ![b] = d] ELSE heap

Occupied(s) ==
    /\ Alive(s)
    /\ occupied(slots[s]) \in BOOLEAN
    /\ UNCHANGED vars

OccupiedVersion(s) ==
    /\ Alive(s)
    /\ occupied_version(slots[s]).lo \in Nat
    /\ UNCHANGED vars

HasVersion(s, v) ==
    /\ Alive(s)
    /\ has_version(slots[s], v) \in BOOLEAN
    /\ UNCHANGED vars

Value(s) ==
    /\ Alive(s)
    /\ Len(value(slots[s])) <= 1
    /\ UNCHANGED vars

ValueMut(s, d) ==
    /\ Step
    /\ Alive(s)
    /\ Write(value_mut(slots[s]), d)
    /\ hist' = Forget(hist)
    /\ UNCHANGED << slots, drops, caller, wire >>

GetVersioned(s, v) ==
    /\ Alive(s)
    /\ Len(get_versioned(slots[s], v)) <= 1
    /\ UNCHANGED vars

GetVersionedMut(s, v, d) ==
    /\ Step
    /\ Alive(s)
    /\ Write(get_versioned_mut(slots[s], v), d)
    /\ hist' = Forget(hist)
    /\ UNCHANGED << slots, drops, caller, wire >>

\* Slot's Debug.  T's Debug runs only if the slot reports itself occupied.
Debug(s) ==
    /\ Alive(s)
    /\ IF occupied(slots[s])
       THEN \E d \in Payloads(slots[s].value) :
              fmt(slots[s], d).name = "Slot"
       ELSE fmt(slots[s], "none").name = "Slot"
    /\ UNCHANGED vars

\* unsafe fn: the caller calls it only on a slot that holds a value
GetUnchecked(s) ==
    /\ Alive(s)
    /\ hist[s].held # 0
    /\ get_unchecked(slots[s]) \in Int
    /\ UNCHANGED vars

GetUncheckedMut(s, d) ==
    /\ Step
    /\ Alive(s)
    /\ hist[s].held # 0
    /\ Write(Some(get_unchecked_mut(slots[s])), d)
    /\ hist' = Forget(hist)
    /\ UNCHANGED << slots, drops, caller, wire >>

Next ==
    \/ \E s \in SlotIds : New(s)
    \/ \E s \in SlotIds, t \in SlotIds : Clone(s, t)
    \/ \E s \in SlotIds, rec \in Records \cup Written : Deserialize(s, rec)
    \/ \E s \in SlotIds : Serialize(s)
    \/ \E s \in SlotIds : Debug(s)
    \/ \E s \in SlotIds : Drop(s)
    \/ \E d \in Data : MakeValue(d)
    \/ \E s \in SlotIds, n \in NextFrees : WriteNextFree(s, n)
    \/ \E s \in SlotIds, o \in ObjIds : StoreValue(s, o)
    \/ \E s \in SlotIds : RemoveValue(s)
    \/ \E s \in SlotIds : Occupied(s)
    \/ \E s \in SlotIds : OccupiedVersion(s)
    \/ \E s \in SlotIds : \E v \in Handles(s) : HasVersion(s, v)
    \/ \E s \in SlotIds : Value(s)
    \/ \E s \in SlotIds, d \in Data : ValueMut(s, d)
    \/ \E s \in SlotIds : \E v \in Handles(s) : GetVersioned(s, v)
    \/ \E s \in SlotIds, d \in Data :
         \E v \in Handles(s) : GetVersionedMut(s, v, d)
    \/ \E s \in SlotIds : GetUnchecked(s)
    \/ \E s \in SlotIds, d \in Data : GetUncheckedMut(s, d)

Spec == Init /\ [][Next]_vars

(***************************************************************************)
(* Properties.                                                             *)
(***************************************************************************)
\* the versions tried as the argument of has_version and get_versioned
Probes(s) == Handles(s) \cup DeVersions \cup {Zero, One}

\* slot s began as Slot::new() leaves a slot
FromNew(s) == Alive(s) /\ hist[s].seen[1] = Zero

\* C1: in every state of a slot that began as Slot::new(), occupied() is
\* true iff the version is odd, and iff the slot holds a value that was
\* stored and not yet removed.
C1_ParityIffOccupied ==
    \A s \in SlotIds :
      FromNew(s) =>
        /\ occupied(slots[s]) <=> (Rem2(slots[s].version) = 1)
        /\ occupied(slots[s]) <=> (hist[s].held # 0)

\* a slot from Slot::new() that was stored into and removed from
C1_Witness ==
    \E s \in SlotIds :
      /\ FromNew(s)
      /\ NOps(s) = 2
      /\ hist[s].held = 0
      /\ ~occupied(slots[s])

\* C2: below wraparound, the version of an occupancy that remove_value has
\* ended is refused by get_versioned and get_versioned_mut ever after,
\* also when a new value has been stored.
C2_StaleHandleRejected ==
    \A s \in SlotIds :
      (Alive(s) /\ ~hist[s].wrapped) =>
        \A v1 \in hist[s].ended :
          /\ get_versioned(slots[s], v1) = None
          /\ get_versioned_mut(slots[s], v1) = None

\* a value was removed and another one stored after it
C2_Witness ==
    \E s \in SlotIds :
      /\ Alive(s)
      /\ ~hist[s].wrapped
      /\ hist[s].ended # {}
      /\ hist[s].held # 0
      /\ get_versioned(slots[s], slots[s].version) = Some(hist[s].held)

\* C3: has_version(v) is true only of an occupied slot, so get_versioned(v)
\* and get_versioned_mut(v) return a reference only if the slot is occupied
\* and v is its version, and None for every v while the slot is vacant.
C3_HasVersionImpliesOccupied ==
    \A s \in SlotIds :
      Alive(s) =>
        \A v \in Probes(s) :
          /\ has_version(slots[s], v) => occupied(slots[s])
          /\ get_versioned(slots[s], v) # None =>
               occupied(slots[s]) /\ v = slots[s].version
          /\ get_versioned_mut(slots[s], v) # None =>
               occupied(slots[s]) /\ v = slots[s].version
          /\ ~occupied(slots[s]) =>
               /\ get_versioned(slots[s], v) = None
               /\ get_versioned_mut(slots[s], v) = None

\* C4: until the version wraps, the versions observed after the calls of
\* store_value and remove_value on a slot are strictly increasing.
C4_VersionMonotonic ==
    \A s \in SlotIds :
      (Alive(s) /\ ~hist[s].wrapped) =>
        /\ hist[s].seen[Len(hist[s].seen)] = slots[s].version
        /\ \A i \in 1..(Len(hist[s].seen) - 1) :
             U32Less(hist[s].seen[i], hist[s].seen[i + 1])

\* three calls were made on one slot
C4_Witness ==
    \E s \in SlotIds : Alive(s) /\ ~hist[s].wrapped /\ NOps(s) = 3

\* C5: value() and value_mut() return the stored value iff the slot holds
\* one, and None whenever it holds none.
C5_ValueIffOccupied ==
    \A s \in SlotIds :
      Alive(s) =>
        /\ hist[s].held # 0 =>
             /\ value(slots[s]) = Some(hist[s].held)
             /\ value_mut(slots[s]) = Some(hist[s].held)
             /\ LiveObj(hist[s].held)
        /\ hist[s].held = 0 =>
             /\ value(slots[s]) = None
             /\ value_mut(slots[s]) = None

\* a slot whose value was removed, and a slot that holds one
C5_Witness ==
    /\ \E s \in SlotIds :
         Alive(s) /\ hist[s].ended # {} /\ value(slots[s]) = None
    /\ \E s \in SlotIds :
         Alive(s) /\ hist[s].held # 0 /\ value(slots[s]) # None

\* C6: each store_value and each remove_value adds one to the version
\* (modulo 2^32), so the version of a slot from Slot::new() is the number
\* of calls made on it.
C6_VersionCountsCalls ==
    \A s \in SlotIds :
      Alive(s) =>
        /\ hist[s].seen[Len(hist[s].seen)] = slots[s].version
        /\ \A i \in 1..(Len(hist[s].seen) - 1) :
             hist[s].seen[i + 1] = wrapping_add(hist[s].seen[i], One)
        /\ FromNew(s) => slots[s].version = FromNat(NOps(s))

\* store -> 1, remove -> 2, store -> 3
C6_Witness ==
    \E s \in SlotIds :
      /\ Alive(s)
      /\ hist[s].seen = << Zero, One, FromNat(2), FromNat(3) >>
      /\ slots[s].version = FromNat(3)

\* slot s is in the state that a call of `op` on it has just left
JustDid(s, op) ==
    Alive(s) /\ hist[s].prior # None /\ hist[s].prior[1].op = op

\* what remove_value returned, and left behind, apart from the version
RemoveMovesValueOut(s) ==
    LET p == hist[s].prior[1]
    IN  /\ p.obj = p.held
        /\ p.obj \in caller
        /\ LiveObj(p.obj) /\ heap[p.obj] = p.data
        /\ ~occupied(slots[s])
        /\ value(slots[s]) = None
        /\ ~has_version(slots[s], p.before.version)

\* C7, as stated: remove_value returns the value that was stored and
\* leaves the slot vacant with a version strictly greater than the one it
\* had while occupied, so that right afterwards value() is None and
\* has_version(old version) is false.
C7_RemoveLeavesGreaterVersion ==
    \A s \in SlotIds :
      JustDid(s, "remove_value") =>
        /\ RemoveMovesValueOut(s)
        /\ U32Less(hist[s].prior[1].before.version, slots[s].version)

\* C7, amended: the version left is the old one plus one modulo 2^32, which
\* is strictly greater unless the old one was 2^32 - 1; then it is 0.
C7_RemoveAdvancesVersion ==
    \A s \in SlotIds :
      JustDid(s, "remove_value") =>
        LET old == hist[s].prior[1].before.version
        IN  /\ RemoveMovesValueOut(s)
            /\ slots[s].version = wrapping_add(old, One)
            /\ old # U32Max => U32Less(old, slots[s].version)
            /\ old = U32Max => slots[s].version = Zero

\* a value was just removed and is now the caller's
C7_Witness ==
    \E s \in SlotIds :
      /\ JustDid(s, "remove_value")
      /\ hist[s].prior[1].before.value \in ObjIds
      /\ hist[s].prior[1].before.value \in caller

\* every object is accounted for once: it is owned by the caller, or is
\* held by one slot, or its destructor has run once
Owners(o) ==
    Cardinality({s \in SlotIds : Alive(s) /\ hist[s].held = o})
      + (IF o \in caller THEN 1 ELSE 0) + drops[o]

\* C8: every value placed in a slot is released exactly once, by the
\* slot's drop iff the slot is occupied when dropped, or by remove_value
\* handing it to the caller; dropping a vacant slot destroys nothing.
C8_ExactlyOnceDestruction ==
    \A o \in ObjIds :
      /\ drops[o] <= 1
      /\ (heap[o] = "freed") <=> (drops[o] = 1)
      /\ heap[o] = "unalloc" => Owners(o) = 0
      /\ heap[o] # "unalloc" => Owners(o) = 1

\* an occupied slot and a vacant slot were dropped, and a value was removed
C8_Witness ==
    /\ \A s \in SlotIds : hist[s].state = "dropped"
    /\ \E o \in ObjIds : drops[o] = 1
    /\ \E o \in ObjIds : o \in caller /\ drops[o] = 0

\* C9: occupied_version() is odd; on an occupied slot it is the version;
\* read on a vacant slot, it is the version that the next store_value
\* leaves, so that get_versioned of it then returns the stored value.
C9_OccupiedVersionIsNext ==
    \A s \in SlotIds :
      Alive(s) =>
        /\ Rem2(occupied_version(slots[s])) = 1
        /\ hist[s].held # 0 => occupied_version(slots[s]) = slots[s].version
        /\ JustDid(s, "store_value") =>
             LET u == occupied_version(hist[s].prior[1].before)
             IN  /\ slots[s].version = u
                 /\ get_versioned(slots[s], u) = Some(hist[s].prior[1].obj)

\* a value was just stored into a slot that had been emptied before
C9_Witness ==
    \E s \in SlotIds :
      /\ JustDid(s, "store_value")
      /\ hist[s].ended # {}
      /\ occupied_version(hist[s].prior[1].before) = slots[s].version

\* C10: remove_value followed by store_value of what it returned leaves an
\* occupied slot with an equal value, the same next_free, and, below
\* wraparound, the version plus two.
C10_RoundTrip ==
    \A s \in SlotIds :
      (Alive(s) /\ hist[s].restored # None) =>
        LET r == hist[s].restored[1]
        IN  /\ occupied(slots[s])
            /\ hist[s].held = r.held
            /\ value(slots[s]) = Some(r.held)
            /\ LiveObj(r.held) /\ heap[r.held] = r.data
            /\ slots[s].next_free = r.before.next_free
            /\ r.before.version # U32Max =>
                 /\ slots[s].version =
                      wrapping_add(r.before.version, FromNat(2))
                 /\ U32Less(r.before.version, slots[s].version)

\* the round trip was made on a slot whose next_free is not the default
C10_Witness ==
    \E s \in SlotIds :
      /\ Alive(s)
      /\ hist[s].restored # None
      /\ hist[s].restored[1].before.next_free = 42
      /\ hist[s].restored[1].before.version # U32Max

\* C11: the slot that clone() returns has the version and the next_free of
\* the source; from an occupied source it is occupied and holds a new value
\* equal to the source's; from a vacant source it is vacant, T::clone was
\* not called and its storage holds nothing taken from the source.
C11_CloneCopies ==
    \A s \in SlotIds :
      JustDid(s, "clone") =>
        LET p == hist[s].prior[1]
        IN  /\ slots[s].version = p.before.version
            /\ slots[s].next_free = p.before.next_free
            /\ occupied(p.before) =>
                 /\ occupied(slots[s])
                 /\ p.obj \in ObjIds /\ p.obj # p.held
                 /\ hist[s].held = p.obj
                 /\ value(slots[s]) = Some(p.obj)
                 /\ LiveObj(p.obj) /\ heap[p.obj] = p.data
            /\ ~occupied(p.before) =>
                 /\ ~occupied(slots[s])
                 /\ value(slots[s]) = None
                 /\ slots[s].value = uninitialized
                 /\ p.obj = 0 /\ hist[s].held = 0

\* an occupied slot whose next_free is 42 was cloned
C11_Witness ==
    \E s \in SlotIds :
      /\ JustDid(s, "clone")
      /\ occupied(hist[s].prior[1].before)
      /\ hist[s].prior[1].before.next_free = 42
      /\ hist[s].held \in ObjIds

\* one of the two slots was cloned from the other, and both exist
ClonePair(s, t) ==
    /\ s # t /\ Alive(s) /\ Alive(t)
    /\ hist[t].origin = s \/ hist[s].origin = t

\* what can be observed of slot s: its fields, whether it holds a value,
\* and the payload of that value
Obs(s) ==
    [slot |-> slots[s], state |-> hist[s].state, held |-> hist[s].held,
     data |-> IF hist[s].held \in ObjIds THEN heap[hist[s].held] ELSE "none"]

\* the step is a call on slot t that can change something
OpOn(t) ==
    \/ \E o \in ObjIds : StoreValue(t, o)
    \/ RemoveValue(t)
    \/ \E n \in NextFrees : WriteNextFree(t, n)
    \/ \E d \in Data : ValueMut(t, d)
    \/ \E d \in Data : \E v \in Handles(t) : GetVersionedMut(t, v, d)
    \/ \E d \in Data : GetUncheckedMut(t, d)
    \/ Drop(t)

\* C12: of a slot and its clone, no call on the one (store_value,
\* remove_value, a write of next_free, a write through the reference that
\* value_mut, get_versioned_mut or get_unchecked_mut returns, or its drop)
\* changes the version, the next_free or the value of the other.
C12_CloneIndependent ==
    [][\A s \in SlotIds, t \in SlotIds :
         (ClonePair(s, t) /\ OpOn(t)) => Obs(s)' = Obs(s)]_vars

\* a deserialize call has just been made for slot s
JustParsed(s) ==
    hist[s].prior # None /\ hist[s].prior[1].op = "deserialize"

\* C13: the record written by serialize holds the version, and a value iff
\* the slot is occupied; deserialize of that record succeeds and makes a
\* slot of the same version and occupancy, with an equal value if occupied,
\* and with next_free 0 whatever the next_free of the serialized slot.
C13_SerdeRoundTrip ==
    /\ wire # None =>
         LET w == wire[1]
         IN  /\ w.rec.version = w.before.version
             /\ w.rec.value # None <=> occupied(w.before)
             /\ occupied(w.before) => w.rec.value = Some(w.data)
    /\ \A s \in SlotIds :
         (JustParsed(s) /\ hist[s].prior[1].sent # None) =>
           LET p == hist[s].prior[1]
               w == p.sent[1]
           IN  /\ p.result = "Ok"
               /\ Alive(s)
               /\ slots[s].version = w.before.version
               /\ occupied(slots[s]) <=> occupied(w.before)
               /\ occupied(w.before) =>
                    /\ value(slots[s]) = Some(p.obj)
                    /\ hist[s].held = p.obj
                    /\ LiveObj(p.obj) /\ heap[p.obj] = w.data
               /\ ~occupied(w.before) =>
                    value(slots[s]) = None /\ hist[s].held = 0
               /\ slots[s].next_free = 0

\* an occupied slot whose next_free is 42 was serialized and read back
C13_Witness ==
    \E s \in SlotIds :
      /\ JustParsed(s)
      /\ hist[s].prior[1].sent # None
      /\ occupied(hist[s].prior[1].sent[1].before)
      /\ hist[s].prior[1].sent[1].before.next_free = 42
      /\ hist[s].held \in ObjIds

\* C14: deserialize returns Ok iff the record has a value exactly when its
\* version is odd.  After Ok there is a slot with the record's version,
\* occupied iff the record has a value; after Err there is no slot and no
\* value was kept.
C14_DeserializeValidates ==
    \A s \in SlotIds :
      JustParsed(s) =>
        LET p == hist[s].prior[1]
            odd == p.rec.version.lo % 2 = 1
            present == p.rec.value # None
        IN  /\ p.result \in {"Ok", "Err"}
            /\ p.result = "Ok" <=> (present <=> odd)
            /\ p.result = "Ok" =>
                 /\ Alive(s)
                 /\ slots[s].version = p.rec.version
                 /\ occupied(slots[s]) <=> present
                 /\ present =>
                      /\ value(slots[s]) = Some(p.obj)
                      /\ LiveObj(p.obj) /\ heap[p.obj] = p.rec.value[1]
                 /\ ~present => value(slots[s]) = None /\ p.obj = 0
            /\ p.result = "Err" =>
                 /\ hist[s].state = "unborn"
                 /\ slots[s] = new
                 /\ p.obj = 0

\* the record with version 4 and a value was refused
C14_Witness ==
    \E s \in SlotIds :
      /\ JustParsed(s)
      /\ hist[s].prior[1].rec = [value |-> Some("a"), version |-> U32(0, 4)]
      /\ hist[s].prior[1].result = "Err"
      /\ hist[s].state = "unborn"

\* C15: the next_free of a slot changes only when its owner writes the
\* field: store_value, remove_value, the accessors and serialize leave it
\* as it is.  new() and deserialize make slots whose next_free is 0, and
\* clone() makes one with the next_free of its source.
C15_NextFreeFrame ==
    [][\A s \in SlotIds :
         /\ (Alive(s) /\ Alive(s)'
               /\ slots'[s].next_free # slots[s].next_free) =>
              \E n \in NextFrees : WriteNextFree(s, n)
         /\ (Alive(s) /\ hist'[s].prior # None) =>
              /\ (\E o \in ObjIds : StoreValue(s, o)) \/ RemoveValue(s)
              /\ slots'[s].next_free = slots[s].next_free
         /\ (~Alive(s) /\ Alive(s)') =>
              /\ \/ New(s)
                 \/ \E rec \in Records \cup Written : Deserialize(s, rec)
                 \/ \E src \in SlotIds : Clone(src, s)
              /\ New(s) => slots'[s].next_free = 0
              /\ (\E rec \in Records \cup Written : Deserialize(s, rec)) =>
                   slots'[s].next_free = 0
              /\ \A src \in SlotIds :
                   Clone(src, s) =>
                     slots'[s].next_free = slots[src].next_free
      ]_vars

\* a slot whose next_free is 42 was stored into and then emptied
C15_Witness ==
    \E s \in SlotIds :
      /\ JustDid(s, "remove_value")
      /\ hist[s].prior[1].before.next_free = 42
      /\ slots[s].next_free = 42
      /\ NOps(s) >= 2

\* numbers of store_value / remove_value calls between 1 and 2^32 - 1
Distances ==
    {One, FromNat(2), U32(0, Half - 1), U32(1, 0), U32(1, 1),
     U32(Half \div 2, 0), U32(Half - 1, 0), U32Max}

\* 2^31, the number of store / remove cycles that make 2^32 calls
Cycles == U32(Half \div 2, 0)

Shown(s) == IF hist[s].held \in ObjIds THEN heap[hist[s].held] ELSE "none"

\* C17: Debug shows the version first and one more field: the value if the
\* slot is occupied, and then not next_free; next_free if it is vacant, and
\* then nothing of the storage.
C17_DebugFields ==
    \A s \in SlotIds :
      Alive(s) =>
        LET out == fmt(slots[s], Shown(s))
        IN  /\ out.name = "Slot"
            /\ Len(out.fields) = 2
            /\ out.fields[1] = << "version", slots[s].version >>
            /\ hist[s].held # 0 =>
                 /\ occupied(slots[s])
                 /\ out.fields[2] = << "value", heap[hist[s].held] >>
            /\ hist[s].held = 0 =>
                 /\ ~occupied(slots[s])
                 /\ out.fields[2] = << "next_free", slots[s].next_free >>

\* an occupied slot, and a vacant one whose next_free is 42
C17_Witness ==
    /\ \E s \in SlotIds :
         /\ Alive(s) /\ occupied(slots[s])
         /\ fmt(slots[s], Shown(s)).fields[2][1] = "value"
    /\ \E s \in SlotIds :
         /\ Alive(s) /\ ~occupied(slots[s])
         /\ fmt(slots[s], Shown(s)).fields[2] = << "next_free", 42 >>

\* how slot s was made
MadeBy(s) ==
    IF hist[s].origin # 0 THEN "clone"
    ELSE IF hist[s].seen[1] = Zero THEN "new"
    ELSE "deserialize"

\* C18: however a slot was made (new, clone, deserialize) and whatever
\* store_value and remove_value calls followed, its version is odd iff it
\* holds a live value; what new() makes has version 0 and holds none.
C18_ParityFromEveryConstructor ==
    \A s \in SlotIds :
      Alive(s) =>
        /\ MadeBy(s) \in {"new", "clone", "deserialize"}
        /\ (Rem2(slots[s].version) = 1) <=> (hist[s].held # 0)
        /\ occupied(slots[s]) <=> (hist[s].held # 0)
        /\ hist[s].held # 0 =>
             slots[s].value = hist[s].held /\ LiveObj(hist[s].held)
        /\ hist[s].held = 0 => slots[s].value = uninitialized
        /\ (MadeBy(s) = "new" /\ NOps(s) = 0) =>
             slots[s].version = Zero /\ hist[s].held = 0
        /\ (Rem2(hist[s].seen[1]) = 1) <=>
             (IF NOps(s) % 2 = 0 THEN hist[s].held # 0
              ELSE hist[s].held = 0)

\* a slot made by deserialize and a clone of it that was emptied afterwards
C18_Witness ==
    \E s \in SlotIds, t \in SlotIds :
      /\ Alive(s) /\ Alive(t)
      /\ MadeBy(s) = "deserialize" /\ occupied(slots[s])
      /\ MadeBy(t) = "clone" /\ hist[t].origin = s
      /\ NOps(t) = 1 /\ ~occupied(slots[t])

\* C19: remove_value on an occupied slot of version 2^32 - 1 returns the
\* value and leaves version 0, a vacant slot (occupied() false, value()
\* None); the store_value that follows makes it occupied with version 1.
C19_ParitySurvivesWrap ==
    \A s \in SlotIds :
      Alive(s) =>
        /\ (hist[s].held # 0 /\ slots[s].version = U32Max) =>
             /\ occupied(slots[s])
             /\ remove_value(slots[s]).slot.version = Zero
             /\ remove_value(slots[s]).ret = hist[s].held
        /\ (JustDid(s, "remove_value")
             /\ hist[s].prior[1].before.version = U32Max) =>
             /\ slots[s].version = Zero
             /\ ~occupied(slots[s])
             /\ value(slots[s]) = None
             /\ hist[s].held = 0
             /\ hist[s].prior[1].obj = hist[s].prior[1].held
             /\ hist[s].prior[1].obj \in caller
        /\ (JustDid(s, "store_value") /\ hist[s].wrapped
             /\ hist[s].prior[1].before.version = Zero) =>
             /\ slots[s].version = One
             /\ occupied(slots[s])
             /\ value(slots[s]) = Some(hist[s].prior[1].obj)
             /\ hist[s].held = hist[s].prior[1].obj

\* the store_value that follows the remove_value at version 2^32 - 1
C19_Witness ==
    \E s \in SlotIds :
      /\ JustDid(s, "store_value")
      /\ hist[s].wrapped
      /\ hist[s].prior[1].before.version = Zero
      /\ hist[s].seen[Len(hist[s].seen) - 2] = U32Max

====
